---- MODULE Spec2Model ----
(***************************************************************************)
(* Quotes, payments and stock of the budget generator backend.             *)
(*                                                                         *)
(* The state is the three MongoDB collections (products, quotes,           *)
(* payments) and, for every request context, the position of the handler   *)
(* it runs together with the documents that handler holds in memory.       *)
(* Every action is one database operation of a handler (one await), with   *)
(* the local computation that follows it up to the next await.             *)
(***************************************************************************)
EXTENDS Integers, Sequences, FiniteSets, TLC

\* ------------------------------------------------------------- bounds
MaxStock == 2      \* initial stock of a product ranges over 0..MaxStock
MaxQty == 2        \* a line, or an admin stock update, asks for 1..MaxQty units
MaxRequests == 4   \* requests handled in one behaviour

Products == {"pA", "pB"}
Procs == {"r1", "r2"}
\* Identifiers of the documents that can be created: one quote, and two payments
\* so that a second payment of the quote can be represented.
QuoteIds == {1}
PaymentIds == {1, 2}

\* The gateway's answers to getPaymentStatus that the handlers tell apart.
GatewayStatuses == {"approved", "rejected", "cancelled", "in_process"}
\* What the gateway's getPaymentStatus gives: a status, or an exception.
FetchResults == GatewayStatuses \cup {"fetch_error"}
\* The notifications the webhook endpoint tells apart: a payment notification
\* whose signature is absent or right, one of another topic, one without type
\* or data.id, and a payment notification with a wrong signature.
Notifications ==
    {"payment", "signed_payment", "merchant_order", "malformed", "bad_signature"}
TerminalPayment == {"approved", "rejected", "cancelled"}
TerminalQuote == {"paid", "cancelled", "expired"}

VARIABLES
    stock,      \* products collection: stock of each product
    active,     \* products collection: isActive of each product
    catalog,    \* products collection: name and price (in cents) of each product
    quotes,     \* quotes collection, by id; status "none" = no such document
    payments,   \* payments collection, by id; status "none" = no such document
    req,        \* per request context: the handler's position and locals
    nreq,       \* requests started so far; also the clock read by new Date()
    stockDecs,  \* history: successful decrementStock calls per payment's webhooks
    stockAlerts,\* history: payments whose failed stock decrement was logged as an error
    ledger      \* history: the stock at the start, less the quantities of the
                \* successful decrementStock calls, plus those of the successful
                \* incrementStock calls (and with the admin's writes applied)
VARIABLES
    settled     \* history: the stock at the start with the change made by every
                \* operation applied, the writes of the admin 'decrement'
                \* requests that were rejected left out

history == <<stockDecs, stockAlerts, ledger, settled>>

vars ==
    <<stock, active, catalog, quotes, payments, req, nreq,
      stockDecs, stockAlerts, ledger, settled>>

\* ------------------------------------------------------------- documents
Line(p, n) == [product |-> p, quantity |-> n]

OneLine == {<<Line(p, n)>> : p \in Products, n \in 1..MaxQty}

TwoLines == {<<Line(p1, n1), Line(p2, n2)>> :
                p1 \in Products, n1 \in 1..MaxQty, p2 \in Products, n2 \in 1..MaxQty}

ItemLists == OneLine \cup TwoLines

\* The requests of two lines that name the two products, in the order pA, pB.
BothProducts == {<<Line("pA", n1), Line("pB", n2)>> : n1 \in 1..MaxQty, n2 \in 1..MaxQty}

NoQuote ==
    [status |-> "none", items |-> <<>>, paymentId |-> 0, due |-> FALSE,
     discount |-> 0, tax |-> 0, subtotal |-> 0, total |-> 0]

NoPayment ==
    [quote |-> 0, status |-> "none", paidAt |-> 0, webhookData |-> "none", amount |-> 0]

Idle ==
    [op |-> "none", pc |-> "idle", q |-> 0, pay |-> 0, gst |-> "none",
     lq |-> "none", lp |-> "none", lpaid |-> 0, items |-> <<>>,
     prod |-> "none", qty |-> 0, sop |-> "none", dec |-> "none",
     res |-> "none", at |-> 0, errs |-> {}, note |-> "none",
     fetched |-> "none", http |-> 0, amount |-> 0, discount |-> 0, tax |-> 0,
     dueNow |-> {}, scanned |-> {}, updatedProducts |-> <<>>]

\* A request that has produced its HTTP response keeps its locals until Finish.
Responded(r, result) == [r EXCEPT !.pc = "resp", !.res = result]

\* Request contexts are anonymous: a new request takes the first free one.
Earlier(p) == IF p = "r2" THEN {"r1"} ELSE {}

CanStart(p) ==
    /\ req[p].pc = "idle"
    /\ \A o \in Earlier(p) : req[o].pc # "idle"
    /\ nreq < MaxRequests

Start(p, r) ==
    /\ req' = [req EXCEPT ![p] = [r EXCEPT !.at = nreq + 1]]
    /\ nreq' = nreq + 1

Step(p, r) == req' = [req EXCEPT ![p] = r]

\* ------------------------------------------------------------- products
\* ProductSchema.methods.validateStock
validateStockOf(s, n) == s >= n /\ n > 0

\* Number of lines of items that name product p.
RECURSIVE LinesOf(_, _)
LinesOf(items, p) ==
    IF items = <<>> THEN 0
    ELSE (IF Head(items).product = p THEN 1 ELSE 0) + LinesOf(Tail(items), p)

\* Sum of the quantities of the lines of items that name product p.
RECURSIVE QtyOf(_, _)
QtyOf(items, p) ==
    IF items = <<>> THEN 0
    ELSE (IF Head(items).product = p THEN Head(items).quantity ELSE 0)
         + QtyOf(Tail(items), p)

ProductsOf(items) == {items[i].product : i \in 1..Len(items)}

\* ------------------------------------------------------------- stock ledger
\* A validateStock that stops at the first line that fails.
ValidateStockFirstError(items) ==
    {i \in 1..Len(items) :
        /\ \/ ~active[items[i].product]
           \/ ~validateStockOf(stock[items[i].product], items[i].quantity)
        /\ \A j \in 1..(i - 1) :
              /\ active[items[j].product]
              /\ validateStockOf(stock[items[j].product], items[j].quantity)}

\* StockService.validateStock: the lines whose product is not among the active
\* products read, or whose product fails validateStock(quantity).
ValidateStockErrors(items) ==
    {i \in 1..Len(items) :
        \/ ~active[items[i].product]
        \/ ~validateStockOf(stock[items[i].product], items[i].quantity)}

\* The errors array of StockService.validateStock: one entry per failing line,
\* with the quantity asked for and the stock of the product read (0 when the
\* product is not among the active products).
ValidationErrors(items) ==
    {[productId |-> items[i].product,
      requested |-> items[i].quantity,
      available |-> IF active[items[i].product] THEN stock[items[i].product] ELSE 0] :
        i \in ValidateStockErrors(items)}

\* The catch block of decrementStock: whatever was thrown inside the
\* transaction, the result carries one entry, productId 'general' and the
\* message of the exception.
CaughtErrors(message) == {[productId |-> "general", error |-> message]}

\* The loop of decrementStock inside the transaction.  snap is the stock of the
\* product documents read at the start (the check of each line uses the document
\* read, not the running value); run is the stock as written so far inside the
\* transaction; errs counts the lines pushed to errors; thrown is the exception
\* raised when an update returns a negative stock.
RECURSIVE DecrementLoop(_, _, _, _)
DecrementLoop(items, snap, run, errs) ==
    IF items = <<>> THEN [thrown |-> FALSE, errs |-> errs, run |-> run]
    ELSE LET item == Head(items)
             p == item.product
         IN  IF ~active[p] THEN DecrementLoop(Tail(items), snap, run, errs + 1)
             ELSE IF snap[p] < item.quantity
             THEN DecrementLoop(Tail(items), snap, run, errs + 1)
             ELSE LET updated == [run EXCEPT ![p] = run[p] - item.quantity] IN
                  IF updated[p] < 0
                  THEN [thrown |-> TRUE, errs |-> errs, run |-> updated]
                  ELSE DecrementLoop(Tail(items), snap, updated, errs)

\* The updatedProducts array of decrementStock: one entry per line that was
\* written, in the order of the lines.  previousStock is product.stock of the
\* document found at the start of the transaction (snap), newStock is the stock
\* of the document returned by findByIdAndUpdate (the running value).
RECURSIVE UpdatedProducts(_, _, _)
UpdatedProducts(items, snap, run) ==
    IF items = <<>> THEN <<>>
    ELSE LET item == Head(items)
             p == item.product
         IN  IF ~active[p] \/ snap[p] < item.quantity
             THEN UpdatedProducts(Tail(items), snap, run)
             ELSE LET updated == [run EXCEPT ![p] = run[p] - item.quantity] IN
                  <<[productId |-> p, previousStock |-> snap[p],
                     newStock |-> updated[p]]>>
                     \o UpdatedProducts(Tail(items), snap, updated)

\* A variant of the transaction that keeps the writes made before the failure.
DecrementStockNoRollback(items) ==
    IF ValidateStockErrors(items) # {}
    THEN [success |-> FALSE, stock |-> stock, errors |-> {}]
    ELSE LET r == DecrementLoop(items, stock, stock, 0) IN
         [success |-> ~r.thrown /\ r.errs = 0, stock |-> r.run, errors |-> {}]

\* StockService.decrementStock: validation, then the loop, committed only when
\* the callback of withTransaction returns; any throw aborts the transaction and
\* the catch block turns it into a failed result: the result built before the
\* throw is dropped.  The result of the call and the stock it leaves.
DecrementStockTxn(items) ==
    IF ValidateStockErrors(items) # {}
    THEN [success |-> FALSE, stock |-> stock,
          errors |-> CaughtErrors("Validacion de stock fallida")]
    ELSE LET r == DecrementLoop(items, stock, stock, 0) IN
         IF r.thrown
         THEN [success |-> FALSE, stock |-> stock,
               errors |-> CaughtErrors("Stock negativo resultante")]
         ELSE IF r.errs > 0
         THEN [success |-> FALSE, stock |-> stock,
               errors |-> CaughtErrors("Error en decremento de stock")]
         ELSE [success |-> TRUE, stock |-> r.run, errors |-> {}]

\* The updatedProducts of the result of decrementStock: present only in the
\* successful result.
DecrementUpdatedProducts(items) ==
    IF DecrementStockTxn(items).success
    THEN UpdatedProducts(items, stock, stock)
    ELSE <<>>

\* The loop of incrementStock inside the transaction.
RECURSIVE IncrementLoop(_, _, _)
IncrementLoop(items, run, errs) ==
    IF items = <<>> THEN [errs |-> errs, run |-> run]
    ELSE LET item == Head(items)
             p == item.product
         IN  IF ~active[p] THEN IncrementLoop(Tail(items), run, errs + 1)
             ELSE IncrementLoop(Tail(items),
                                [run EXCEPT ![p] = run[p] + item.quantity], errs)

\* StockService.incrementStock.
IncrementStockTxn(items) ==
    LET r == IncrementLoop(items, stock, 0) IN
    IF r.errs > 0
    THEN [success |-> FALSE, stock |-> stock]
    ELSE [success |-> TRUE, stock |-> r.run]

\* The ledger after a call of decrementStock (sign -1) or incrementStock
\* (sign 1) on items that returned success or not.
LedgerAfter(items, sign, success) ==
    IF success THEN [x \in Products |-> ledger[x] + sign * QtyOf(items, x)]
    ELSE ledger

\* The settled stock after an operation that leaves the stock at newStock.
SettledAfter(newStock) ==
    [x \in Products |-> settled[x] + (newStock[x] - stock[x])]

\* A variant that does not log a failed decrement.
StockFailureSwallowed(pay, success) == stockAlerts

\* handlePaymentWebhook after decrementStock: logger.error('Error decrementando
\* stock después del pago', {paymentId, quoteId, errors}) when the result is
\* not a success.
StockFailureLogged(pay, success) ==
    IF success THEN stockAlerts ELSE stockAlerts \cup {pay}

\* A direct call of stockService.validateStock(items): it reads the products
\* and returns {isValid, errors}.
SvcValidate(p, items) ==
    /\ CanStart(p)
    /\ Start(p, Responded([Idle EXCEPT !.op = "validateStock", !.items = items,
                                        !.errs = ValidationErrors(items)],
                          IF ValidateStockErrors(items) = {} THEN "valid" ELSE "invalid"))
    /\ UNCHANGED <<stock, active, catalog, quotes, payments, history>>

\* A direct call of stockService.decrementStock(items).
SvcDecrement(p, items) ==
    /\ CanStart(p)
    /\ LET r == DecrementStockTxn(items) IN
        /\ stock' = r.stock
        /\ ledger' = LedgerAfter(items, -1, r.success)
        /\ settled' = SettledAfter(r.stock)
        /\ Start(p, Responded([Idle EXCEPT !.op = "decrementStock", !.items = items,
                                            !.errs = r.errors,
                                            !.updatedProducts =
                                                DecrementUpdatedProducts(items)],
                              IF r.success THEN "success" ELSE "failure"))
    /\ UNCHANGED <<active, catalog, quotes, payments, stockDecs, stockAlerts>>

\* A direct call of stockService.incrementStock(items); the model stops adding
\* once a product holds MaxStock + MaxQty units.
SvcIncrement(p, items) ==
    /\ CanStart(p)
    /\ \A x \in Products : stock[x] + QtyOf(items, x) <= MaxStock + MaxQty
    /\ LET r == IncrementStockTxn(items) IN
        /\ stock' = r.stock
        /\ ledger' = LedgerAfter(items, 1, r.success)
        /\ settled' = SettledAfter(r.stock)
        /\ Start(p, Responded([Idle EXCEPT !.op = "incrementStock", !.items = items],
                              IF r.success THEN "success" ELSE "failure"))
    /\ UNCHANGED <<active, catalog, quotes, payments, stockDecs, stockAlerts>>

\* updateStock, first await: Product.findByIdAndUpdate with $inc or a plain set.
\* Update validators do not run on $inc, so the write is applied as it is.
UpdateStockQuery(prod, n, sop) ==
    IF sop = "increment" THEN stock[prod] + n
    ELSE IF sop = "decrement" THEN stock[prod] - n
    ELSE n

UpdateStock(p, prod, n, sop) ==
    /\ CanStart(p)
    /\ sop = "increment" => stock[prod] + n <= MaxStock + MaxQty
    /\ LET new == UpdateStockQuery(prod, n, sop)
           r == [Idle EXCEPT !.op = "updateStock", !.prod = prod, !.qty = n, !.sop = sop]
       IN
        /\ stock' = [stock EXCEPT ![prod] = new]
        /\ ledger' = [ledger EXCEPT ![prod] = new + (ledger[prod] - stock[prod])]
        /\ settled' = IF sop = "decrement" /\ new < 0 THEN settled
                      ELSE SettledAfter([stock EXCEPT ![prod] = new])
        /\ Start(p, IF new < 0 THEN [r EXCEPT !.pc = "usRevert"]
                    ELSE Responded(r, "updated"))
    /\ UNCHANGED <<active, catalog, quotes, payments, stockDecs, stockAlerts>>

\* A variant of the revert that writes the stock back as 0.
UpdateStockRevertToZero(p) ==
    /\ req[p].pc = "usRevert"
    /\ stock' = [stock EXCEPT ![req[p].prod] = 0]
    /\ ledger' = [ledger EXCEPT ![req[p].prod] = ledger[req[p].prod] - stock[req[p].prod]]
    /\ settled' = IF req[p].sop = "decrement" THEN settled
                  ELSE SettledAfter([stock EXCEPT ![req[p].prod] = 0])
    /\ Step(p, Responded(req[p], "error"))
    /\ UNCHANGED <<active, catalog, quotes, payments, nreq, stockDecs, stockAlerts>>

\* updateStock, second await: the revert after a negative result.
UpdateStockRevert(p) ==
    /\ req[p].pc = "usRevert"
    /\ stock' = [stock EXCEPT ![req[p].prod] = stock[req[p].prod] + req[p].qty]
    /\ ledger' = [ledger EXCEPT ![req[p].prod] = ledger[req[p].prod] + req[p].qty]
    /\ settled' = IF req[p].sop = "decrement" THEN settled
                  ELSE [settled EXCEPT ![req[p].prod] = settled[req[p].prod] + req[p].qty]
    /\ Step(p, Responded(req[p], "error"))
    /\ UNCHANGED <<active, catalog, quotes, payments, nreq, stockDecs, stockAlerts>>

\* deleteProduct: the soft delete, isActive = false.
DeleteProduct(p, prod) ==
    /\ CanStart(p)
    /\ active[prod]
    /\ active' = [active EXCEPT ![prod] = FALSE]
    /\ Start(p, Responded([Idle EXCEPT !.op = "deleteProduct", !.prod = prod], "deleted"))
    /\ UNCHANGED <<stock, catalog, quotes, payments, history>>


\* ------------------------------------------------------------- numbers
\* The totals are JavaScript Numbers: IEEE 754 binary64 values, every operation
\* rounded to nearest, ties to even.  A Number is [m, s], the value m / 2^s with
\* m a natural number below 2^53, written as a sequence of digits in base
\* Base, least significant first; money is given to and taken from these
\* operators as an integer number of cents.
Base == 32768

RECURSIVE Strip(_)
Strip(a) == IF a # <<>> /\ a[Len(a)] = 0 THEN Strip(SubSeq(a, 1, Len(a) - 1)) ELSE a

RECURSIVE FromInt(_)
FromInt(n) == IF n = 0 THEN <<>> ELSE <<n % Base>> \o FromInt(n \div Base)

RECURSIVE ToInt(_)
ToInt(a) == IF a = <<>> THEN 0 ELSE Head(a) + Base * ToInt(Tail(a))

RECURSIVE MulSmall(_, _, _)
MulSmall(a, n, carry) ==
    IF a = <<>> THEN FromInt(carry)
    ELSE LET v == Head(a) * n + carry IN <<v % Base>> \o MulSmall(Tail(a), n, v \div Base)

RECURSIVE DivSmall(_, _, _)
DivSmall(a, n, rem) ==
    IF a = <<>> THEN [q |-> <<>>, r |-> rem]
    ELSE LET cur == rem * Base + a[Len(a)]
             rest == DivSmall(SubSeq(a, 1, Len(a) - 1), n, cur % n)
         IN  [q |-> Append(rest.q, cur \div n), r |-> rest.r]

RECURSIVE AddBig(_, _, _)
AddBig(a, b, c) ==
    IF a = <<>> /\ b = <<>> THEN FromInt(c)
    ELSE LET x == IF a = <<>> THEN 0 ELSE Head(a)
             y == IF b = <<>> THEN 0 ELSE Head(b)
             v == x + y + c
         IN  <<v % Base>> \o AddBig(IF a = <<>> THEN a ELSE Tail(a),
                                    IF b = <<>> THEN b ELSE Tail(b), v \div Base)

\* a - b - c for a >= b + c.
RECURSIVE SubBig(_, _, _)
SubBig(a, b, c) ==
    IF a = <<>> THEN <<>>
    ELSE LET y == IF b = <<>> THEN 0 ELSE Head(b)
             v == Head(a) - y - c
         IN  <<v % Base>> \o SubBig(Tail(a), IF b = <<>> THEN b ELSE Tail(b),
                                    IF v < 0 THEN 1 ELSE 0)

RECURSIVE Pow2(_)
Pow2(k) == IF k = 0 THEN 1 ELSE 2 * Pow2(k - 1)

RECURSIVE SmallBits(_)
SmallBits(n) == IF n = 0 THEN 0 ELSE 1 + SmallBits(n \div 2)

BitLen(a) == IF a = <<>> THEN 0 ELSE (Len(a) - 1) * 15 + SmallBits(a[Len(a)])

RECURSIVE ShiftLeft(_, _)
ShiftLeft(a, k) ==
    IF k = 0 \/ a = <<>> THEN a
    ELSE IF k >= 15 THEN ShiftLeft(<<0>> \o a, k - 15)
    ELSE MulSmall(a, Pow2(k), 0)

\* a shifted right by k bits; sticky tells whether a bit that was dropped, here
\* or before, was set.
RECURSIVE ShiftRight(_, _, _)
ShiftRight(a, k, sticky) ==
    IF k = 0 \/ a = <<>> THEN [q |-> a, sticky |-> sticky]
    ELSE IF k >= 15 THEN ShiftRight(Tail(a), k - 15, sticky \/ Head(a) # 0)
    ELSE LET d == DivSmall(a, Pow2(k), 0) IN
         [q |-> Strip(d.q), sticky |-> sticky \/ d.r # 0]

Odd(a) == a # <<>> /\ Head(a) % 2 = 1

\* Ties to even: pre is the value with one bit more than the 53 kept, q the 53
\* bits; q goes up when the bit dropped is set and either something lower was
\* set or q is odd.
RoundUp(pre, q, s) ==
    [m |-> IF Odd(pre.q) /\ (pre.sticky \/ Odd(q)) THEN AddBig(q, <<>>, 1) ELSE q,
     s |-> s]

RoundHalf(pre, s) == RoundUp(pre, ShiftRight(pre.q, 1, FALSE).q, s)

\* n has k bits more than 53.
RoundShifted(n, s, k, sticky) ==
    IF k <= 0 THEN [m |-> n, s |-> s]
    ELSE RoundHalf(ShiftRight(n, k - 1, sticky), s - k)

\* The Number nearest to n / 2^s (a little more when sticky), ties to even.
RoundTo53(n, s, sticky) == RoundShifted(n, s, BitLen(n) - 53, sticky)

\* The Number of an integer.
DInt(n) == [m |-> FromInt(n), s |-> 0]

\* x * n for an integer n.
DMulInt(x, n) == RoundTo53(Strip(MulSmall(x.m, n, 0)), x.s, FALSE)

\* The quotient d of the division, rounded; the remainder makes it sticky.
Div100Round(d, s) == RoundTo53(Strip(d.q), s, d.r # 0)

\* x / 100 with x.m shifted left by j bits, so that the quotient has more than
\* 53 bits.
Div100Shifted(x, j) == Div100Round(DivSmall(ShiftLeft(x.m, j), 100, 0), x.s + j)

\* x / 100.
DDiv100(x) == IF x.m = <<>> THEN x ELSE Div100Shifted(x, 61 - BitLen(x.m))

Max(a, b) == IF a >= b THEN a ELSE b

\* x + y and x - y with both brought to the scale s.
AddAt(x, y, s) ==
    RoundTo53(Strip(AddBig(ShiftLeft(x.m, s - x.s), ShiftLeft(y.m, s - y.s), 0)), s, FALSE)

SubAt(x, y, s) ==
    RoundTo53(Strip(SubBig(ShiftLeft(x.m, s - x.s), ShiftLeft(y.m, s - y.s), 0)), s, FALSE)

\* x + y.
DAdd(x, y) == AddAt(x, y, Max(x.s, y.s))

\* x - y for x >= y.
DSub(x, y) == SubAt(x, y, Max(x.s, y.s))

\* Math.round(x): the integer floor(x + 1/2).
MathRound(x) ==
    IF x.s <= 0 THEN ToInt(ShiftLeft(x.m, 0 - x.s))
    ELSE (ToInt(ShiftRight(x.m, x.s - 1, FALSE).q) + 1) \div 2

\* ------------------------------------------------------------- totals
\* The prices (in cents) and names a product is given, and the discount and tax
\* percentages of a quote request.
Prices == {750, 10000}
Names == {"original", "renamed"}
Discounts == {0, 10}
Taxes == {0, 21}

\* A line for calculateTotals: the price of the snapshot, in cents, and the
\* quantity.
PricedLine(price, n) == [price |-> price, quantity |-> n]

PricedLists ==
    {<<PricedLine(c, n)>> : c \in Prices, n \in 1..MaxQty}
    \cup {<<PricedLine(c1, n1), PricedLine(c2, n2)>> :
             c1 \in Prices, n1 \in 1..MaxQty, c2 \in Prices, n2 \in 1..MaxQty}

\* The reduce of calculateTotals: sum + price * quantity over the lines.
RECURSIVE SumLines(_, _)
SumLines(lines, sum) ==
    IF lines = <<>> THEN sum
    ELSE SumLines(Tail(lines),
                  DAdd(sum, DMulInt(DDiv100(DInt(Head(lines).price)), Head(lines).quantity)))

\* QuoteSchema.methods.calculateTotals: the subtotal and the total it stores, in
\* cents (the value stored is that number of cents divided by 100).
\* Lines 206 to 214: taxAmount, total and the two roundings.
TotalsAfterDiscount(subtotal, afterDiscount, tax) ==
    [subtotal |-> MathRound(DMulInt(subtotal, 100)),
     total |-> MathRound(DMulInt(DAdd(afterDiscount,
                                      DDiv100(DMulInt(afterDiscount, tax))), 100))]

\* Lines 202 to 204: discountAmount and afterDiscount.
TotalsOfSubtotal(subtotal, discount, tax) ==
    TotalsAfterDiscount(subtotal,
                        DSub(subtotal, DDiv100(DMulInt(subtotal, discount))), tax)

calculateTotals(lines, discount, tax) ==
    TotalsOfSubtotal(SumLines(lines, DInt(0)), discount, tax)

\* calculateTotals on every input it is given, as a table built once.
Totals ==
    [in \in PricedLists \X Discounts \X Taxes |-> calculateTotals(in[1], in[2], in[3])]
    @@ [in \in {} |-> 0]

\* A calculateTotals that reads the price of the product as it is now.
CurrentPrice(item) == catalog[item.product].price

\* item.productSnapshot.price, which calculateTotals reads.
SnapshotPrice(item) == item.price

\* The pre-save hook of QuoteSchema: the totals of the document are computed
\* again from its lines, discount and tax.
StoreTotals(doc, t) == [doc EXCEPT !.subtotal = t.subtotal, !.total = t.total]

QuotePreSave(doc) ==
    StoreTotals(doc, Totals[<<[i \in 1..Len(doc.items) |->
                                 PricedLine(SnapshotPrice(doc.items[i]),
                                            doc.items[i].quantity)],
                              doc.discount, doc.tax>>])

\* The catalog before any updateProduct.
InitCatalog ==
    [p \in Products |->
        [name |-> "original", price |-> IF p = "pA" THEN 10000 ELSE 750]]

\* updateProduct: Product.findByIdAndUpdate(id, updateData) with a name and a
\* price in updateData.
UpdateProduct(p, prod, name, price) ==
    /\ CanStart(p)
    /\ catalog' = [catalog EXCEPT ![prod] = [name |-> name, price |-> price]]
    /\ Start(p, Responded([Idle EXCEPT !.op = "updateProduct", !.prod = prod], "updated"))
    /\ UNCHANGED <<stock, active, quotes, payments, history>>

\* ------------------------------------------------------------- quotes
\* createQuote: Product.find of the active products named, the per-line stock
\* validation against the documents read, then quote.save().  One read and one
\* insert that does not depend on what was read by anyone else.
CreateQuoteResult(items) ==
    IF \/ \E i \in 1..Len(items) : ~active[items[i].product]
       \/ Cardinality(ProductsOf(items)) # Len(items)
    THEN "not_found_or_inactive"
    ELSE IF \E i \in 1..Len(items) :
              ~validateStockOf(stock[items[i].product], items[i].quantity)
    THEN "stock_errors"
    ELSE "created"

\* The stockErrors array of createQuote: one message per line whose quantity
\* exceeds the stock of the product read, with the stock and the quantity in it.
stockErrors(items) ==
    {[line |-> i, productId |-> items[i].product,
      available |-> stock[items[i].product], requested |-> items[i].quantity] :
        i \in {j \in 1..Len(items) :
                 ~validateStockOf(stock[items[j].product], items[j].quantity)}}

\* The items of the quote that createQuote builds: each line of the request
\* with the snapshot of the name and the price of the product read.
QuoteItems(items) ==
    [i \in 1..Len(items) |->
        [product |-> items[i].product, quantity |-> items[i].quantity,
         name |-> catalog[items[i].product].name,
         price |-> catalog[items[i].product].price]]

\* A createQuote that takes the quantities of a created quote out of stock.
CreateQuoteReserving(p, items, discount, tax) ==
    /\ CanStart(p)
    /\ \E q \in QuoteIds :
        /\ quotes[q].status = "none"
        /\ \A o \in QuoteIds : o < q => quotes[o].status # "none"
        /\ LET result == CreateQuoteResult(items) IN
            /\ quotes' = IF result = "created"
                         THEN [quotes EXCEPT ![q] =
                                 QuotePreSave([status |-> "pending",
                                               items |-> QuoteItems(items),
                                               paymentId |-> 0, due |-> FALSE,
                                               discount |-> discount, tax |-> tax,
                                               subtotal |-> 0, total |-> 0])]
                         ELSE quotes
            /\ stock' = IF result = "created"
                        THEN [x \in Products |-> stock[x] - QtyOf(items, x)]
                        ELSE stock
            /\ Start(p, Responded([Idle EXCEPT !.op = "createQuote",
                                               !.q = IF result = "created" THEN q ELSE 0,
                                               !.items = items, !.discount = discount,
                                               !.tax = tax,
                                               !.errs = IF result = "stock_errors"
                                                        THEN stockErrors(items)
                                                        ELSE {}], result))
    /\ UNCHANGED <<active, catalog, payments, history>>

CreateQuote(p, items, discount, tax) ==
    /\ CanStart(p)
    /\ \E q \in QuoteIds :
        /\ quotes[q].status = "none"
        /\ \A o \in QuoteIds : o < q => quotes[o].status # "none"
        /\ LET result == CreateQuoteResult(items) IN
            /\ quotes' = IF result = "created"
                         THEN [quotes EXCEPT ![q] =
                                 QuotePreSave([status |-> "pending",
                                               items |-> QuoteItems(items),
                                               paymentId |-> 0, due |-> FALSE,
                                               discount |-> discount, tax |-> tax,
                                               subtotal |-> 0, total |-> 0])]
                         ELSE quotes
            /\ Start(p, Responded([Idle EXCEPT !.op = "createQuote",
                                               !.q = IF result = "created" THEN q ELSE 0,
                                               !.items = items, !.discount = discount,
                                               !.tax = tax,
                                               !.errs = IF result = "stock_errors"
                                                        THEN stockErrors(items)
                                                        ELSE {}], result))
    /\ UNCHANGED <<stock, active, catalog, payments, history>>

\* The expiresAt validator of QuoteSchema (the date must be later than now).
\* save() validates the paths of the document it loaded, so it runs on every
\* quote.save() and rejects the save of a quote whose expiration has passed.
QuoteSaveValid(q) == ~quotes[q].due

\* Time passes beyond a quote's expiresAt.
Tick(q) ==
    /\ quotes[q].status # "none"
    /\ ~quotes[q].due
    /\ quotes' = [quotes EXCEPT ![q].due = TRUE]
    /\ UNCHANGED <<stock, active, catalog, payments, req, nreq, history>>

\* cancelQuote, first await: Quote.findOne and the status check on the copy read.
CancelQuoteLoad(p, q) ==
    /\ CanStart(p)
    /\ LET r == [Idle EXCEPT !.op = "cancelQuote", !.q = q, !.lq = quotes[q].status] IN
        Start(p, IF quotes[q].status = "none" THEN Responded(r, "not_found")
                 ELSE IF quotes[q].status # "pending" THEN Responded(r, "bad_request")
                 ELSE [r EXCEPT !.pc = "cqSave"])
    /\ UNCHANGED <<stock, active, catalog, quotes, payments, history>>

\* A cancelQuote whose save also releases the quote's payment reference.
CancelQuoteWriteRelease(q) ==
    [quotes EXCEPT ![q] = QuotePreSave([@ EXCEPT !.status = "cancelled", !.paymentId = 0])]

\* The write of quote.save() in cancelQuote: $set of the modified path, by _id.
CancelQuoteWrite(q) == [quotes EXCEPT ![q] = QuotePreSave([@ EXCEPT !.status = "cancelled"])]

\* cancelQuote, second await: quote.status = 'cancelled'; quote.save().
CancelQuoteSave(p) ==
    /\ req[p].pc = "cqSave"
    /\ IF QuoteSaveValid(req[p].q)
       THEN /\ quotes' = CancelQuoteWrite(req[p].q)
            /\ Step(p, Responded(req[p], "cancelled"))
       ELSE /\ quotes' = quotes
            /\ Step(p, Responded(req[p], "validation_error"))
    /\ UNCHANGED <<stock, active, catalog, payments, nreq, history>>

\* expireOldQuotes: Quote.updateMany({status: 'pending', expiresAt <= now}, expired).
\* A filter that matches every pending quote, whatever its expiresAt.
ExpireMatchAnyPending(status, due) == status = "pending"

\* A filter that matches every quote whose expiresAt has passed unless it is
\* paid or cancelled.
ExpireMatchExpiredToo(status, due) == due /\ status \in {"pending", "expired"}

\* The filter of the update: status 'pending' and expiresAt <= now.
ExpireMatch(status, due) == status = "pending" /\ due

ExpireFilter(q) == ExpireMatch(quotes[q].status, quotes[q].due)

ExpireOldQuotes(p) ==
    /\ CanStart(p)
    /\ quotes' = [q \in QuoteIds |->
                    IF ExpireFilter(q) THEN [quotes[q] EXCEPT !.status = "expired"]
                    ELSE quotes[q]]
    /\ Start(p, Responded([Idle EXCEPT !.op = "expireOldQuotes",
                             !.qty = Cardinality({q \in QuoteIds : ExpireFilter(q)})],
                          "ok"))
    /\ UNCHANGED <<stock, active, catalog, payments, history>>

\* expireOldQuotes on a collection of several quotes.  new Date() is taken when
\* the filter is built: dueNow is the set of quotes whose expiresAt is not later.
\* updateMany then matches and writes one document at a time, each document
\* atomically, so the writes of two runs interleave between documents.
ExpireStart(p) ==
    /\ CanStart(p)
    /\ Start(p, [Idle EXCEPT !.op = "expireOldQuotes", !.pc = "exScan",
                             !.dueNow = {q \in DOMAIN quotes : quotes[q].due}])
    /\ UNCHANGED <<stock, active, catalog, quotes, payments, history>>

\* One document of the updateMany; after the last one the handler answers with
\* expiredCount: result.modifiedCount.
ExpireDocument(p, q) ==
    /\ req[p].pc = "exScan"
    /\ q \in DOMAIN quotes \ req[p].scanned
    /\ LET match == ExpireMatch(quotes[q].status, q \in req[p].dueNow)
           r == [req[p] EXCEPT !.scanned = @ \cup {q},
                               !.qty = IF match THEN @ + 1 ELSE @]
       IN  /\ quotes' = IF match THEN [quotes EXCEPT ![q].status = "expired"] ELSE quotes
           /\ Step(p, IF r.scanned = DOMAIN quotes THEN Responded(r, "ok") ELSE r)
    /\ UNCHANGED <<stock, active, catalog, payments, nreq, history>>

\* ------------------------------------------------------------- payments
PaymentsOfQuote(q) == {id \in PaymentIds : payments[id].status # "none" /\ payments[id].quote = q}

\* A payments collection without the unique index on quote.
NoUniqueQuoteIndex(q) == TRUE

\* The unique index of PaymentSchema.quote: what the storage layer accepts.
UniqueQuoteIndexAllows(q) == PaymentsOfQuote(q) = {}

\* createPayment, Quote.findById and the status check.
CreatePaymentLoad(p, q) ==
    /\ CanStart(p)
    /\ LET r == [Idle EXCEPT !.op = "createPayment", !.q = q, !.lq = quotes[q].status,
                             !.amount = quotes[q].total] IN
        Start(p, IF quotes[q].status = "none" THEN Responded(r, "not_found")
                 ELSE IF quotes[q].status # "pending" THEN Responded(r, "bad_request")
                 ELSE [r EXCEPT !.pc = "cpFind"])
    /\ UNCHANGED <<stock, active, catalog, quotes, payments, history>>

\* createPayment, Payment.findOne({ quote: quoteId }).
CreatePaymentFind(p) ==
    /\ req[p].pc = "cpFind"
    /\ Step(p, IF PaymentsOfQuote(req[p].q) # {}
               THEN Responded(req[p], "payment_exists")
               ELSE [req[p] EXCEPT !.pc = "cpValidate"])
    /\ UNCHANGED <<stock, active, catalog, quotes, payments, nreq, history>>

\* A createPayment that stores the payment before it asks the gateway for the
\* order, and leaves it there when the gateway fails.
CreatePaymentValidateStoresFirst(p) ==
    /\ req[p].pc = "cpValidate"
    /\ IF ValidateStockErrors(quotes[req[p].q].items) # {}
       THEN /\ payments' = payments
            /\ Step(p, Responded(req[p], "stock_errors"))
       ELSE \/ /\ payments' = payments
               /\ Step(p, [req[p] EXCEPT !.pc = "cpHook"])
            \/ /\ \E id \in PaymentIds :
                     /\ payments[id].status = "none"
                     /\ payments' = [payments EXCEPT ![id] =
                                       [quote |-> req[p].q, status |-> "pending",
                                        paidAt |-> 0, webhookData |-> "none",
                                        amount |-> req[p].amount]]
               /\ Step(p, Responded(req[p], "gateway_error"))
    /\ UNCHANGED <<stock, active, catalog, quotes, nreq, history>>

\* createPayment, stockService.validateStock of the quote's lines, then the
\* gateway's createPaymentOrder, which returns a preference or throws.
CreatePaymentValidate(p) ==
    /\ req[p].pc = "cpValidate"
    /\ IF ValidateStockErrors(quotes[req[p].q].items) # {}
       THEN Step(p, Responded(req[p], "stock_errors"))
       ELSE \/ Step(p, [req[p] EXCEPT !.pc = "cpHook"])
            \/ Step(p, Responded(req[p], "gateway_error"))
    /\ UNCHANGED <<stock, active, catalog, quotes, payments, nreq, history>>

\* payment.save(), the pre-save hook: findOne of another payment of the quote.
CreatePaymentHook(p) ==
    /\ req[p].pc = "cpHook"
    /\ Step(p, IF PaymentsOfQuote(req[p].q) # {}
               THEN Responded(req[p], "hook_error")
               ELSE [req[p] EXCEPT !.pc = "cpInsert"])
    /\ UNCHANGED <<stock, active, catalog, quotes, payments, nreq, history>>

\* payment.save(), the insert, which the unique index accepts or refuses.
CreatePaymentInsert(p) ==
    /\ req[p].pc = "cpInsert"
    /\ IF UniqueQuoteIndexAllows(req[p].q)
       THEN \E id \in PaymentIds :
               /\ payments[id].status = "none"
               /\ \A o \in PaymentIds : o < id => payments[o].status # "none"
               /\ payments' = [payments EXCEPT ![id] =
                                 [quote |-> req[p].q, status |-> "pending",
                                  paidAt |-> 0, webhookData |-> "none",
                                  amount |-> req[p].amount]]
               /\ Step(p, [req[p] EXCEPT !.pc = "cpSaveQuote", !.pay = id])
       ELSE /\ payments' = payments
            /\ Step(p, Responded(req[p], "duplicate_key"))
    /\ UNCHANGED <<stock, active, catalog, quotes, nreq, history>>

\* createPayment, quote.paymentId = payment._id; quote.save().
CreatePaymentSaveQuote(p) ==
    /\ req[p].pc = "cpSaveQuote"
    /\ IF QuoteSaveValid(req[p].q)
       THEN /\ quotes' = [quotes EXCEPT ![req[p].q] =
                                QuotePreSave([@ EXCEPT !.paymentId = req[p].pay])]
            /\ Step(p, Responded(req[p], "created"))
       ELSE /\ quotes' = quotes
            /\ Step(p, Responded(req[p], "validation_error"))
    /\ UNCHANGED <<stock, active, catalog, payments, nreq, history>>

\* cancelPayment, Payment.findById and the status check.
CancelPaymentLoad(p, pay) ==
    /\ CanStart(p)
    /\ LET r == [Idle EXCEPT !.op = "cancelPayment", !.pay = pay,
                             !.q = payments[pay].quote, !.lp = payments[pay].status] IN
        Start(p, IF payments[pay].status = "none" THEN Responded(r, "not_found")
                 ELSE IF payments[pay].status # "pending" THEN Responded(r, "bad_request")
                 ELSE [r EXCEPT !.pc = "xpSave"])
    /\ UNCHANGED <<stock, active, catalog, quotes, payments, history>>

\* cancelPayment, payment.status = 'cancelled'; payment.save().  The paidAt hook
\* clears paidAt because the status was modified to a value other than approved.
CancelPaymentSave(p) ==
    /\ req[p].pc = "xpSave"
    /\ payments' = [payments EXCEPT ![req[p].pay].status = "cancelled",
                                    ![req[p].pay].paidAt = 0]
    /\ Step(p, [req[p] EXCEPT !.pc = "xpLoadQuote"])
    /\ UNCHANGED <<stock, active, catalog, quotes, nreq, history>>

\* cancelPayment, Quote.findById of the payment's quote.
CancelPaymentLoadQuote(p) ==
    /\ req[p].pc = "xpLoadQuote"
    /\ Step(p, IF quotes[req[p].q].status = "pending"
               THEN [req[p] EXCEPT !.pc = "xpSaveQuote", !.lq = "pending"]
               ELSE Responded([req[p] EXCEPT !.lq = quotes[req[p].q].status], "cancelled"))
    /\ UNCHANGED <<stock, active, catalog, quotes, payments, nreq, history>>

\* cancelPayment, quote.paymentId = null; quote.save().
CancelPaymentSaveQuote(p) ==
    /\ req[p].pc = "xpSaveQuote"
    /\ IF QuoteSaveValid(req[p].q)
       THEN /\ quotes' = [quotes EXCEPT ![req[p].q] =
                                QuotePreSave([@ EXCEPT !.paymentId = 0])]
            /\ Step(p, Responded(req[p], "cancelled"))
       ELSE /\ quotes' = quotes
            /\ Step(p, Responded(req[p], "validation_error"))
    /\ UNCHANGED <<stock, active, catalog, payments, nreq, history>>

\* ------------------------------------------------------------- webhook
\* The x-signature header of a notification: absent, the HMAC of the body
\* under the access token, or anything else.
Signature(note) ==
    IF note = "signed_payment" THEN "valid"
    ELSE IF note = "bad_signature" THEN "wrong"
    ELSE "absent"

\* webhookData.type of a notification; a malformed body has no usable type.
Topic(note) ==
    IF note \in {"payment", "signed_payment", "bad_signature"} THEN "payment"
    ELSE IF note = "merchant_order" THEN "merchant_order"
    ELSE "none"

\* MercadoPagoService.validateWebhookSignature: signature === expectedSignature.
validateWebhookSignature(signature) == signature = "valid"

\* A service that refuses a notification without a signature.
ServiceRequiresSignature(note, fetched) ==
    IF note = "malformed" THEN [kind |-> "throw", status |-> "none"]
    ELSE IF ~validateWebhookSignature(Signature(note))
    THEN [kind |-> "invalid", status |-> "none"]
    ELSE IF Topic(note) = "payment"
    THEN IF fetched = "fetch_error" THEN [kind |-> "throw", status |-> "none"]
         ELSE [kind |-> "payment", status |-> fetched]
    ELSE [kind |-> "unsupported", status |-> "none"]

\* A service that answers a failed status fetch as an approved payment.
ServiceApprovesOnFetchError(note, fetched) ==
    IF note = "malformed" THEN [kind |-> "throw", status |-> "none"]
    ELSE IF note = "bad_signature" THEN [kind |-> "invalid", status |-> "none"]
    ELSE IF Topic(note) = "payment"
    THEN [kind |-> "payment",
          status |-> IF fetched = "fetch_error" THEN "approved" ELSE fetched]
    ELSE [kind |-> "unsupported", status |-> "none"]

\* A service that does not check the signature.
ServiceSkipsSignature(note, fetched) ==
    IF note = "malformed" THEN [kind |-> "throw", status |-> "none"]
    ELSE IF Topic(note) = "payment"
    THEN IF fetched = "fetch_error" THEN [kind |-> "throw", status |-> "none"]
         ELSE [kind |-> "payment", status |-> fetched]
    ELSE [kind |-> "unsupported", status |-> "none"]

\* MercadoPagoService.processWebhook: the structure check, the signature check
\* when a signature came with the notification, then, for a payment notification, getPaymentStatus, whose exception
\* propagates.  kind tells how the call ends: it throws, it returns isValid
\* false, or it returns the processed data of a payment or of another topic.
ServiceProcessWebhook(note, fetched) ==
    IF note = "malformed" THEN [kind |-> "throw", status |-> "none"]
    ELSE IF Signature(note) # "absent" /\ ~validateWebhookSignature(Signature(note))
    THEN [kind |-> "invalid", status |-> "none"]
    ELSE IF Topic(note) = "payment"
    THEN IF fetched = "fetch_error" THEN [kind |-> "throw", status |-> "none"]
         ELSE [kind |-> "payment", status |-> fetched]
    ELSE [kind |-> "unsupported", status |-> "none"]

\* An endpoint that answers 500 when the handling threw.
WebhookStatusErrorOnThrow(result) == IF result = "processing_error" THEN 500 ELSE 200

\* An endpoint that answers 400 to what it does not process.
WebhookStatusRefusesUnprocessed(result) == IF result = "ack" THEN 200 ELSE 400

\* The HTTP status of the webhook endpoint's response: res.status(200) on the
\* invalid signature, at the end of the handling and in the catch block.
WebhookStatus(result) == 200

\* The responses of processWebhook: "ack" is {received: true, processed: true},
\* "unsupported" {received: true, processed: false}, "invalid_signature"
\* {received: false}, "processing_error" {received: true, processed: false,
\* error: 'Processing error'}.
WebhookRespond(r, result) == [Responded(r, result) EXCEPT !.http = WebhookStatus(result)]

\* A switch whose default case falls through to payment.save().
WebhookBranchSavesUnknown(r) ==
    IF r.gst = "approved" THEN [r EXCEPT !.pc = "whLoadQuote"]
    ELSE [r EXCEPT !.pc = "whSavePayment"]

\* handlePaymentWebhook up to the switch.  gst is the status the gateway returns
\* for the notified payment and pay the payment its external reference names.
\* The branch taken depends on gst alone.
WebhookBranch(r) ==
    IF r.gst = "approved" THEN [r EXCEPT !.pc = "whLoadQuote"]
    ELSE IF r.gst \in {"rejected", "cancelled"} THEN [r EXCEPT !.pc = "whSavePayment"]
    ELSE WebhookRespond(r, "ack")

\* The notifications received.  One that is not handled as a payment carries no
\* gateway status; the payment and the status that a wrongly signed one names
\* are kept, the others name none.
WebhookInputs ==
    ({"payment"} \X PaymentIds \X FetchResults)
    \cup ({"bad_signature"} \X PaymentIds \X {"approved"})
    \cup ({"merchant_order", "malformed"} \X {0} \X {"none"})

\* The payment notifications that come with the signature of their body.
SignedWebhookInputs == {"signed_payment"} \X PaymentIds \X FetchResults

\* processWebhook up to the first await of handlePaymentWebhook that reads the
\* payment: the request context after the service call and
\* Payment.findOne({ externalReference }).
WebhookFound(note, pay, fetched) ==
    LET svc == ServiceProcessWebhook(note, fetched)
        r0 == [Idle EXCEPT !.op = "webhook", !.note = note, !.pay = pay,
                           !.fetched = fetched, !.gst = svc.status]
    IN  IF svc.kind = "throw" THEN WebhookRespond(r0, "processing_error")
        ELSE IF svc.kind = "invalid" THEN WebhookRespond(r0, "invalid_signature")
        ELSE IF svc.kind = "unsupported" THEN WebhookRespond(r0, "unsupported")
        ELSE IF payments[pay].status = "none" THEN WebhookRespond(r0, "ack")
        ELSE WebhookBranch([r0 EXCEPT !.q = payments[pay].quote,
                                      !.lp = payments[pay].status,
                                      !.lpaid = payments[pay].paidAt])

\* processWebhook and handlePaymentWebhook, Payment.findOne({ externalReference }).
WebhookFind(p, note, pay, fetched) ==
    /\ CanStart(p)
    /\ Start(p, WebhookFound(note, pay, fetched))
    /\ UNCHANGED <<stock, active, catalog, quotes, payments, history>>

\* case 'approved': Quote.findById(payment.quote).
WebhookLoadQuote(p) ==
    /\ req[p].pc = "whLoadQuote"
    /\ Step(p, [req[p] EXCEPT !.pc = "whSaveQuote", !.lq = quotes[req[p].q].status])
    /\ UNCHANGED <<stock, active, catalog, quotes, payments, nreq, history>>

\* The write of quote.save() after quote.status = 'paid': the status path is
\* written when the assignment changed the copy read, whatever the stored value.
WebhookQuoteWrite(q, loaded) ==
    [quotes EXCEPT ![q] =
        QuotePreSave(IF loaded = "paid" THEN @ ELSE [@ EXCEPT !.status = "paid"])]

\* case 'approved': quote.status = 'paid'; quote.save().  A rejected save
\* throws out of handlePaymentWebhook; processWebhook catches and answers 200.
WebhookSaveQuote(p) ==
    /\ req[p].pc = "whSaveQuote"
    /\ IF QuoteSaveValid(req[p].q)
       THEN /\ quotes' = WebhookQuoteWrite(req[p].q, req[p].lq)
            /\ Step(p, [req[p] EXCEPT !.pc = "whDecrement"])
       ELSE /\ quotes' = quotes
            /\ Step(p, WebhookRespond(req[p], "processing_error"))
    /\ UNCHANGED <<stock, active, catalog, payments, nreq, history>>

\* case 'approved': stockService.decrementStock of the quote's lines.
WebhookDecrement(p) ==
    /\ req[p].pc = "whDecrement"
    /\ LET r == DecrementStockTxn(quotes[req[p].q].items) IN
        /\ stock' = r.stock
        /\ stockDecs' = IF r.success
                        THEN [stockDecs EXCEPT ![req[p].pay] = @ + 1]
                        ELSE stockDecs
        /\ stockAlerts' = StockFailureLogged(req[p].pay, r.success)
        /\ ledger' = LedgerAfter(quotes[req[p].q].items, -1, r.success)
        /\ settled' = SettledAfter(r.stock)
        /\ Step(p, [req[p] EXCEPT !.pc = "whSavePayment",
                                  !.dec = IF r.success THEN "success" ELSE "failure"])
    /\ UNCHANGED <<active, catalog, quotes, payments, nreq>>

\* A payment.save() that also stores an amount taken from the notification.
WebhookPaymentWriteAmount(r) ==
    [payments EXCEPT
        ![r.pay].status = IF r.gst = r.lp THEN @ ELSE r.gst,
        ![r.pay].paidAt = IF r.gst = "approved" THEN r.at
                          ELSE IF r.gst # r.lp THEN 0 ELSE @,
        ![r.pay].webhookData = r.gst,
        ![r.pay].amount = 0]

\* The write of payment.save() at the end of handlePaymentWebhook: the paths the
\* handler and the paidAt hook modified on the copy read (status lp, paidAt).
WebhookPaymentWrite(r) ==
    [payments EXCEPT
        ![r.pay].status = IF r.gst = r.lp THEN @ ELSE r.gst,
        ![r.pay].paidAt = IF r.gst = "approved" THEN r.at
                          ELSE IF r.gst # r.lp THEN 0 ELSE @,
        ![r.pay].webhookData = r.gst]

\* payment.webhookData = webhookData; payment.save().
WebhookSavePayment(p) ==
    /\ req[p].pc = "whSavePayment"
    /\ payments' = WebhookPaymentWrite(req[p])
    /\ Step(p, WebhookRespond(req[p], "ack"))
    /\ UNCHANGED <<stock, active, catalog, quotes, nreq, history>>

\* A storage operation fails (connection lost, validation error): the await
\* throws.  decrementStock catches it and returns a failed result; everywhere
\* else the handler ends with an error response and the writes made so far
\* stay; the webhook endpoint's catch block answers "processing_error".
Fail(p) ==
    /\ req[p].pc \notin {"idle", "resp"}
    /\ Step(p, IF req[p].pc = "whDecrement"
               THEN [req[p] EXCEPT !.pc = "whSavePayment", !.dec = "failure"]
               ELSE IF req[p].op = "webhook"
               THEN WebhookRespond(req[p], "processing_error")
               ELSE Responded(req[p], "error"))
    /\ stockAlerts' = IF req[p].pc = "whDecrement"
                      THEN StockFailureLogged(req[p].pay, FALSE)
                      ELSE stockAlerts
    /\ UNCHANGED <<stock, active, catalog, quotes, payments, nreq, stockDecs, ledger,
                   settled>>

\* The response has been sent; the request context is free again.
Finish(p) ==
    /\ req[p].pc = "resp"
    /\ Step(p, Idle)
    /\ UNCHANGED <<stock, active, catalog, quotes, payments, nreq, history>>

\* ------------------------------------------------------------- specification
Init ==
    /\ stock \in [Products -> 0..MaxStock]
    /\ active = [p \in Products |-> TRUE]
    /\ catalog = InitCatalog
    /\ quotes = [q \in QuoteIds |-> NoQuote]
    /\ payments = [id \in PaymentIds |-> NoPayment]
    /\ req = [p \in Procs |-> Idle]
    /\ nreq = 0
    /\ stockDecs = [id \in PaymentIds |-> 0]
    /\ stockAlerts = {}
    /\ ledger = stock
    /\ settled = stock

\* The steps of the HTTP handlers, taken by request context p.
Handler(p) ==
    \/ \E items \in ItemLists : CreateQuote(p, items, 0, 0)
    \/ \E q \in QuoteIds : CancelQuoteLoad(p, q)
    \/ CancelQuoteSave(p)
    \/ ExpireOldQuotes(p)
    \/ \E q \in QuoteIds : CreatePaymentLoad(p, q)
    \/ CreatePaymentFind(p)
    \/ CreatePaymentValidate(p)
    \/ CreatePaymentHook(p)
    \/ CreatePaymentInsert(p)
    \/ CreatePaymentSaveQuote(p)
    \/ \E pay \in PaymentIds : CancelPaymentLoad(p, pay)
    \/ CancelPaymentSave(p)
    \/ CancelPaymentLoadQuote(p)
    \/ CancelPaymentSaveQuote(p)
    \/ \E n \in WebhookInputs : WebhookFind(p, n[1], n[2], n[3])
    \/ WebhookLoadQuote(p)
    \/ WebhookSaveQuote(p)
    \/ WebhookDecrement(p)
    \/ WebhookSavePayment(p)
    \/ \E prod \in Products, n \in 1..MaxQty, sop \in {"set", "increment", "decrement"} :
          UpdateStock(p, prod, n, sop)
    \/ UpdateStockRevert(p)
    \/ \E prod \in Products : DeleteProduct(p, prod)

\* The continuation after a handler's last await sends the response and returns
\* in the same turn of the event loop: nothing else runs before Finish.
Ready == \A p \in Procs : req[p].pc # "resp"

\* Requests are handled concurrently: any context may take its next step.
Next ==
    \/ \E p \in Procs : Finish(p)
    \/ \E p \in Procs : Ready /\ Handler(p)
    \/ \E q \in QuoteIds : Ready /\ Tick(q)

Spec == Init /\ [][Next]_vars

OthersIdle(p) == \A o \in Procs \ {p} : req[o].pc = "idle"

\* Requests arrive one after another: a request starts when no other is in flight.
SeqNext ==
    \/ \E p \in Procs : Finish(p)
    \/ \E p \in Procs : Ready /\ OthersIdle(p) /\ Handler(p)
    \/ \E q \in QuoteIds : Ready /\ Tick(q)

SeqSpec == Init /\ [][SeqNext]_vars

\* Concurrent requests over a store whose operations can fail.
FaultNext ==
    \/ \E p \in Procs : Finish(p)
    \/ \E p \in Procs : Ready /\ Handler(p)
    \/ \E p \in Procs : Ready /\ Fail(p)
    \/ \E q \in QuoteIds : Ready /\ Tick(q)

FaultSpec == Init /\ [][FaultNext]_vars

\* The handlers that create and cancel payments, called concurrently over a
\* store whose operations can fail.
PaymentHandler(p) ==
    \/ \E items \in ItemLists : CreateQuote(p, items, 0, 0)
    \/ \E q \in QuoteIds : CreatePaymentLoad(p, q)
    \/ CreatePaymentFind(p)
    \/ CreatePaymentValidate(p)
    \/ CreatePaymentHook(p)
    \/ CreatePaymentInsert(p)
    \/ CreatePaymentSaveQuote(p)
    \/ \E pay \in PaymentIds : CancelPaymentLoad(p, pay)
    \/ CancelPaymentSave(p)
    \/ CancelPaymentLoadQuote(p)
    \/ CancelPaymentSaveQuote(p)
    \/ Fail(p)

PaymentNext ==
    \/ \E p \in Procs : Finish(p)
    \/ \E p \in Procs : Ready /\ PaymentHandler(p)

PaymentSpec == Init /\ [][PaymentNext]_vars

\* The stock service and the admin stock endpoints alone, called concurrently.
Ledger(p) ==
    \/ \E items \in ItemLists : SvcDecrement(p, items)
    \/ \E items \in ItemLists : SvcIncrement(p, items)
    \/ \E prod \in Products, n \in 1..MaxQty, sop \in {"set", "increment", "decrement"} :
          UpdateStock(p, prod, n, sop)
    \/ UpdateStockRevert(p)
    \/ \E prod \in Products : DeleteProduct(p, prod)

LedgerNext ==
    \/ \E p \in Procs : Finish(p)
    \/ \E p \in Procs : Ready /\ Ledger(p)

LedgerSpec == Init /\ [][LedgerNext]_vars

\* The webhook endpoint over the quotes and payments that requests create,
\* handled concurrently; the operations of the handling of a notification can
\* fail.
NotifyHandler(p) ==
    \/ \E items \in OneLine : CreateQuote(p, items, 0, 0)
    \/ \E q \in QuoteIds : CreatePaymentLoad(p, q)
    \/ CreatePaymentFind(p)
    \/ CreatePaymentValidate(p)
    \/ CreatePaymentHook(p)
    \/ CreatePaymentInsert(p)
    \/ CreatePaymentSaveQuote(p)
    \/ \E n \in WebhookInputs : WebhookFind(p, n[1], n[2], n[3])
    \/ WebhookLoadQuote(p)
    \/ WebhookSaveQuote(p)
    \/ WebhookDecrement(p)
    \/ WebhookSavePayment(p)
    \/ req[p].op = "webhook" /\ Fail(p)

NotifyNext ==
    \/ \E p \in Procs : Finish(p)
    \/ \E p \in Procs : Ready /\ NotifyHandler(p)

NotifySpec == Init /\ [][NotifyNext]_vars

\* The same requests arriving one after another, the gateway signing some of
\* its payment notifications.
SignatureHandler(p) ==
    \/ NotifyHandler(p)
    \/ \E n \in SignedWebhookInputs : WebhookFind(p, n[1], n[2], n[3])

SignatureNext ==
    \/ \E p \in Procs : Finish(p)
    \/ \E p \in Procs : Ready /\ OthersIdle(p) /\ SignatureHandler(p)

SignatureSpec == Init /\ [][SignatureNext]_vars

\* The stock service alone: sequences of decrementStock and incrementStock
\* calls over products that can be deactivated.
StockCalls(p) ==
    \/ \E items \in ItemLists : SvcDecrement(p, items)
    \/ \E items \in ItemLists : SvcIncrement(p, items)
    \/ \E prod \in Products : DeleteProduct(p, prod)

StockNext ==
    \/ \E p \in Procs : Finish(p)
    \/ \E p \in Procs : Ready /\ StockCalls(p)

StockSpec == Init /\ [][StockNext]_vars

\* validateStock called between calls that change the stock and deactivate
\* products.
ValidateCalls(p) ==
    \/ \E items \in ItemLists : SvcValidate(p, items)
    \/ \E items \in OneLine : SvcDecrement(p, items)
    \/ \E items \in OneLine : SvcIncrement(p, items)
    \/ \E prod \in Products : DeleteProduct(p, prod)

ValidateNext ==
    \/ \E p \in Procs : Finish(p)
    \/ \E p \in Procs : Ready /\ ValidateCalls(p)

ValidateSpec == Init /\ [][ValidateNext]_vars

\* A collection of two stored quotes of one line each, in any status: a paid
\* quote names its approved payment, whose units have left the stock; an
\* expired quote is past its expiresAt.
SweepQuoteIds == {1, 2}

SweepStatuses == {"pending", "paid", "cancelled", "expired"}

SweepInit ==
    /\ stock = [p \in Products |-> MaxStock]
    /\ active = [p \in Products |-> TRUE]
    /\ catalog = InitCatalog
    /\ \E st \in [SweepQuoteIds -> SweepStatuses], du \in [SweepQuoteIds -> BOOLEAN] :
          /\ \A q \in SweepQuoteIds : st[q] = "expired" => du[q]
          /\ quotes = [q \in SweepQuoteIds |->
                         QuotePreSave([status |-> st[q],
                                       items |-> QuoteItems(<<Line("pA", 1)>>),
                                       paymentId |-> IF st[q] = "paid" THEN q ELSE 0,
                                       due |-> du[q], discount |-> 0, tax |-> 0,
                                       subtotal |-> 0, total |-> 0])]
    /\ payments = [id \in PaymentIds |->
                     IF quotes[id].status = "paid"
                     THEN [quote |-> id, status |-> "approved", paidAt |-> 1,
                           webhookData |-> "approved", amount |-> quotes[id].total]
                     ELSE NoPayment]
    /\ req = [p \in Procs |-> Idle]
    /\ nreq = 0
    /\ stockDecs = [id \in PaymentIds |-> IF payments[id].status = "approved" THEN 1 ELSE 0]
    /\ stockAlerts = {}
    /\ ledger = stock
    /\ settled = stock

\* The sweep and cancelQuote, handled concurrently, while time passes.
SweepHandler(p) ==
    \/ ExpireStart(p)
    \/ \E q \in SweepQuoteIds : ExpireDocument(p, q)
    \/ \E q \in SweepQuoteIds : CancelQuoteLoad(p, q)
    \/ CancelQuoteSave(p)

SweepNext ==
    \/ \E p \in Procs : Finish(p)
    \/ \E p \in Procs : Ready /\ SweepHandler(p)
    \/ \E q \in SweepQuoteIds : Ready /\ Tick(q)

SweepSpec == SweepInit /\ [][SweepNext]_vars

\* The state after createQuote of one line and createPayment of that quote have
\* succeeded: the quote is pending and names its pending payment.  The stock is
\* whatever the admin's updates have left.
PendingPaymentInit ==
    /\ stock \in [Products -> 0..MaxStock]
    /\ active = [p \in Products |-> TRUE]
    /\ catalog = InitCatalog
    /\ \E items \in OneLine :
          quotes = [q \in QuoteIds |->
                      QuotePreSave([status |-> "pending", items |-> QuoteItems(items),
                                    paymentId |-> 1, due |-> FALSE,
                                    discount |-> 0, tax |-> 0,
                                    subtotal |-> 0, total |-> 0])]
    /\ payments = [id \in PaymentIds |->
                     IF id = 1
                     THEN [quote |-> 1, status |-> "pending", paidAt |-> 0,
                           webhookData |-> "none", amount |-> quotes[1].total]
                     ELSE NoPayment]
    /\ req = [p \in Procs |-> Idle]
    /\ nreq = 0
    /\ stockDecs = [id \in PaymentIds |-> 0]
    /\ stockAlerts = {}
    /\ ledger = stock
    /\ settled = stock

\* The requests that settle a payment: notifications and cancelPayment, handled
\* concurrently.
SettleHandler(p) ==
    \/ \E n \in WebhookInputs : WebhookFind(p, n[1], n[2], n[3])
    \/ WebhookLoadQuote(p)
    \/ WebhookSaveQuote(p)
    \/ WebhookDecrement(p)
    \/ WebhookSavePayment(p)
    \/ \E pay \in PaymentIds : CancelPaymentLoad(p, pay)
    \/ CancelPaymentSave(p)
    \/ CancelPaymentLoadQuote(p)
    \/ CancelPaymentSaveQuote(p)

SettleNext ==
    \/ \E p \in Procs : Finish(p)
    \/ \E p \in Procs : Ready /\ SettleHandler(p)

SettleSpec == PendingPaymentInit /\ [][SettleNext]_vars

\* A catalog freshly stocked: every product holds MaxStock units.
PricingInit ==
    /\ stock = [p \in Products |-> MaxStock]
    /\ active = [p \in Products |-> TRUE]
    /\ catalog = InitCatalog
    /\ quotes = [q \in QuoteIds |-> NoQuote]
    /\ payments = [id \in PaymentIds |-> NoPayment]
    /\ req = [p \in Procs |-> Idle]
    /\ nreq = 0
    /\ stockDecs = [id \in PaymentIds |-> 0]
    /\ stockAlerts = {}
    /\ ledger = stock
    /\ settled = stock

\* Quotes with a discount and a tax over a catalog that the admin changes,
\* and the requests that save a quote again; one request at a time.
PricingHandler(p) ==
    \/ \E items \in OneLine \cup BothProducts, discount \in Discounts, tax \in Taxes :
          CreateQuote(p, items, discount, tax)
    \/ \E prod \in Products, name \in Names, price \in Prices :
          UpdateProduct(p, prod, name, price)
    \/ \E prod \in Products : DeleteProduct(p, prod)
    \/ \E q \in QuoteIds : CancelQuoteLoad(p, q)
    \/ CancelQuoteSave(p)
    \/ \E q \in QuoteIds : CreatePaymentLoad(p, q)
    \/ CreatePaymentFind(p)
    \/ CreatePaymentValidate(p)
    \/ CreatePaymentHook(p)
    \/ CreatePaymentInsert(p)
    \/ CreatePaymentSaveQuote(p)
    \/ \E pay \in PaymentIds : CancelPaymentLoad(p, pay)
    \/ CancelPaymentSave(p)
    \/ CancelPaymentLoadQuote(p)
    \/ CancelPaymentSaveQuote(p)
    \/ \E pay \in PaymentIds, gst \in GatewayStatuses : WebhookFind(p, "payment", pay, gst)
    \/ WebhookLoadQuote(p)
    \/ WebhookSaveQuote(p)
    \/ WebhookDecrement(p)
    \/ WebhookSavePayment(p)

PricingNext ==
    \/ \E p \in Procs : Finish(p)
    \/ \E p \in Procs : Ready /\ OthersIdle(p) /\ PricingHandler(p)

PricingSpec == PricingInit /\ [][PricingNext]_vars

\* ------------------------------------------------------------- properties
InFlight(p) == req[p].pc \notin {"idle", "resp"}

StepBy(p) == req'[p] # req[p]

PaymentCore(id) == <<payments[id].status, payments[id].paidAt>>

QuoteStatuses == [q \in QuoteIds |-> quotes[q].status]

\* C1: however many times the approved notification of a payment is delivered,
\* one after another, the quote's lines are decremented from stock once.
C1_ReplayDecrementsOnce == \A id \in PaymentIds : stockDecs[id] <= 1

\* C2: of two approved notifications of the same payment that are being handled
\* at the same time, at most one has decremented stock.
C2_ConcurrentDecrementOnce ==
    ~ \E p1, p2 \in Procs :
        /\ p1 # p2
        /\ req[p1].op = "webhook" /\ req[p2].op = "webhook"
        /\ req[p1].pay = req[p2].pay
        /\ req[p1].gst = "approved" /\ req[p2].gst = "approved"
        /\ req[p1].pc = "whSavePayment" /\ req[p2].pc = "whSavePayment"
        /\ req[p1].dec = "success" /\ req[p2].dec = "success"

\* C3: in every reachable state, between the writes of an operation too, the
\* stock of every product is at least 0.
C3_StockNeverNegative == \A x \in Products : stock[x] >= 0

\* C4: no state shows a quote paid while its payment is pending, or a payment
\* approved while its quote is pending.
C4_ApprovedTransitionAtomic ==
    \A id \in PaymentIds :
        payments[id].status # "none" =>
            /\ ~(quotes[payments[id].quote].status = "paid" /\ payments[id].status = "pending")
            /\ ~(payments[id].status = "approved" /\ quotes[payments[id].quote].status = "pending")

\* C5: a notification whose gateway status differs from the terminal status the
\* payment already has changes neither the status or paidAt of any payment, nor
\* the status of any quote, nor the stock of any product.
C5_TerminalPaymentNotOverwritten ==
    [][\A p \in Procs :
          (/\ req[p].op = "webhook"
           /\ InFlight(p)
           /\ req[p].lp \in TerminalPayment
           /\ req[p].gst # req[p].lp
           /\ StepBy(p))
          => /\ \A id \in PaymentIds : PaymentCore(id)' = PaymentCore(id)
             /\ QuoteStatuses' = QuoteStatuses
             /\ stock' = stock]_vars

\* C6: once a quote is paid, cancelled or expired, no step changes its status.
C6_QuoteTerminalStatusesStay ==
    [][\A q \in QuoteIds :
          quotes[q].status \in TerminalQuote => quotes'[q].status = quotes[q].status]_vars

\* C7: whenever no notification is being handled, every paid quote has a
\* payment whose status is approved.
C7_PaidQuoteHasApprovedPayment ==
    (\A p \in Procs : ~(req[p].op = "webhook" /\ InFlight(p)))
    => \A q \in QuoteIds :
          quotes[q].status = "paid"
          => \E id \in PaymentsOfQuote(q) : payments[id].status = "approved"

\* C8: a step that makes a quote cancelled starts from a state in which that
\* quote is pending.
C8_CancelledOnlyFromPending ==
    [][\A q \in QuoteIds :
          (quotes'[q].status = "cancelled" /\ quotes[q].status # "cancelled")
          => quotes[q].status = "pending"]_vars

\* C9: at most one payment document exists for a quote, in every reachable
\* state of every interleaving of the requests.
C9_OnePaymentPerQuote == \A q \in QuoteIds : Cardinality(PaymentsOfQuote(q)) <= 1

\* C9 witness: a creation request passed the existence check and the pre-save
\* hook, and its insert was refused because another request's payment of the
\* same quote had been stored in between.
C9_Witness ==
    \E p \in Procs :
        /\ req[p].op = "createPayment" /\ req[p].pc = "resp"
        /\ req[p].res = "duplicate_key"
        /\ Cardinality(PaymentsOfQuote(req[p].q)) = 1

\* The step of request context p that is a whole call of the stock service.
LedgerCall(p, name) == req[p].pc = "idle" /\ req'[p].op = name

\* C10: a call of decrementStock or incrementStock either succeeds and applies
\* the quantity of every line, or fails and leaves the stock of every product
\* as it was.
C10_BatchAllOrNothing ==
    [][\A p \in Procs :
          /\ LedgerCall(p, "decrementStock") =>
                \/ /\ req'[p].res = "success"
                   /\ \A x \in Products : stock'[x] = stock[x] - QtyOf(req'[p].items, x)
                \/ /\ req'[p].res = "failure"
                   /\ stock' = stock
          /\ LedgerCall(p, "incrementStock") =>
                \/ /\ req'[p].res = "success"
                   /\ \A x \in Products : stock'[x] = stock[x] + QtyOf(req'[p].items, x)
                \/ /\ req'[p].res = "failure"
                   /\ stock' = stock]_vars

\* C10 witness: a two-line decrement has failed although the stock covered its
\* first line, and a two-line decrement has succeeded.
C10_Witness ==
    \E p \in Procs :
        /\ req[p].op = "decrementStock" /\ req[p].pc = "resp"
        /\ req[p].res = "failure"
        /\ Len(req[p].items) = 2
        /\ req[p].items[1].product # req[p].items[2].product
        /\ active[req[p].items[1].product]
        /\ stock[req[p].items[1].product] >= req[p].items[1].quantity

\* C11: a decrementStock call that asks for more than the stock of an active
\* product fails, leaves the stock of every product as it was and returns the
\* per-line errors of validateStock: product, quantity requested and quantity
\* available.
C11_DecrementReturnsItemErrors ==
    [][\A p \in Procs :
          (/\ LedgerCall(p, "decrementStock")
           /\ \E i \in 1..Len(req'[p].items) :
                 LET item == req'[p].items[i] IN
                 active[item.product] /\ stock[item.product] < item.quantity)
          => /\ req'[p].res = "failure"
             /\ stock' = stock
             /\ req'[p].errs = ValidationErrors(req'[p].items)]_vars

\* The step of a notification reporting approved, read while the payment was
\* pending, whose stock decrement has failed or fails in this step.
ApprovedWithoutStock(p) ==
    /\ req[p].op = "webhook" /\ req[p].gst = "approved" /\ req[p].lp = "pending"
    /\ req[p].pc \in {"whDecrement", "whSavePayment"}
    /\ StepBy(p)
    /\ req'[p].dec = "failure"

\* C12: when the stock decrement of an approved notification fails, no stock
\* changes and the failure is logged for the payment; the payment is then saved
\* approved while its quote is paid.
C12_ApprovedWithoutStockEscalated ==
    [][\A p \in Procs :
          ApprovedWithoutStock(p)
          => /\ stock' = stock
             /\ req[p].pay \in stockAlerts'
             /\ req[p].pc = "whSavePayment"
                  => /\ payments'[req[p].pay].status = "approved"
                     /\ quotes'[req[p].q].status = "paid"]_vars

\* C12 witness: such a notification has been answered; a line of the quote asks
\* for more than the stock of its product.
C12_Witness ==
    \E p \in Procs :
        /\ req[p].op = "webhook" /\ req[p].pc = "resp"
        /\ req[p].gst = "approved" /\ req[p].lp = "pending"
        /\ req[p].dec = "failure"
        /\ \E i \in 1..Len(quotes[req[p].q].items) :
              stock[quotes[req[p].q].items[i].product] < quotes[req[p].q].items[i].quantity
        /\ payments[req[p].pay].status = "approved"
        /\ quotes[req[p].q].status = "paid"
        /\ req[p].pay \in stockAlerts

\* C13: for every product, the stock at the start less the quantities of the
\* successful decrements plus the quantities of the successful increments is
\* the stock now.
C13_LedgerSumMatchesStock == \A x \in Products : ledger[x] = stock[x]

\* C13 witness: after three calls or more, one of which has just failed, the
\* stock of a product exceeds every value it can have at the start.
C13_Witness ==
    /\ \E p \in Procs :
          /\ req[p].pc = "resp" /\ req[p].res = "failure"
          /\ req[p].op \in {"decrementStock", "incrementStock"}
    /\ nreq >= 3
    /\ \E x \in Products : stock[x] > MaxStock

\* The step in which the handling of a notification by p ends on an
\* infrastructure failure: a storage operation throws, or the status fetch does.
HandlingFails(p) ==
    /\ req'[p].op = "webhook" /\ req'[p].pc = "resp"
    /\ \/ Fail(p)
       \/ req[p].pc = "idle" /\ req'[p].fetched = "fetch_error"

C15_HandledNotificationsAcknowledged ==
    \A p \in Procs :
        (/\ req[p].op = "webhook" /\ req[p].pc = "resp"
         /\ req[p].res \in {"ack", "unsupported"})
        => req[p].http = 200

\* C15 witness: an approved notification of a pending payment has been applied
\* and answered 200, and so has a notification of another topic.
C15_Witness ==
    /\ \E p \in Procs :
          /\ req[p].op = "webhook" /\ req[p].pc = "resp"
          /\ req[p].res = "unsupported" /\ req[p].http = 200
    /\ \E id \in PaymentIds :
          /\ payments[id].status = "approved" /\ payments[id].webhookData = "approved"
          /\ stockDecs[id] = 1

\* C16: the handling of a notification whose status fetch failed changes no
\* payment, no quote and no stock.
C16_FetchFailureAppliesNothing ==
    [][\A p \in Procs :
          (StepBy(p) /\ req'[p].op = "webhook" /\ req'[p].fetched = "fetch_error")
          => payments' = payments /\ quotes' = quotes /\ stock' = stock]_vars

\* C16 witness: the notification of a pending payment was answered after its
\* status fetch failed; the payment and its quote are still pending.
C16_Witness ==
    \E p \in Procs :
        /\ req[p].op = "webhook" /\ req[p].pc = "resp"
        /\ req[p].fetched = "fetch_error"
        /\ req[p].res = "processing_error"
        /\ payments[req[p].pay].status = "pending"
        /\ quotes[payments[req[p].pay].quote].status = "pending"

\* A notification that is malformed, wrongly signed, or names no payment stored.
Unprocessable(r) ==
    /\ r.op = "webhook"
    /\ \/ r.note \in {"malformed", "bad_signature"}
       \/ r.note = "payment" /\ payments[r.pay].status = "none"

\* C17: no step of the handling of a notification that is malformed, wrongly
\* signed or names no stored payment changes a payment, a quote or the stock.
C17_UnprocessableChangesNothing ==
    [][\A p \in Procs :
          (StepBy(p) /\ Unprocessable(req'[p]))
          => payments' = payments /\ quotes' = quotes /\ stock' = stock]_vars

\* C17 witness: a wrongly signed notification that names a pending payment and
\* reports it approved has been answered; the payment is still pending.
C17_Witness ==
    \E p \in Procs :
        /\ req[p].op = "webhook" /\ req[p].pc = "resp"
        /\ req[p].note = "bad_signature" /\ req[p].res = "invalid_signature"
        /\ payments[req[p].pay].status = "pending"
        /\ quotes[payments[req[p].pay].quote].status = "pending"

\* A payment-creation request for quote q has been refused because a payment
\* of the quote exists.
RefusedAsExisting(p, q) ==
    /\ req[p].op = "createPayment" /\ req[p].pc = "resp"
    /\ req[p].q = q /\ req[p].res = "payment_exists"

\* C18: once cancelPayment has cancelled the payment of a pending quote and
\* cleared the quote's payment reference, a payment-creation request for the
\* quote is not refused because of the cancelled payment.
C18_NewPaymentAfterCancel ==
    \A q \in QuoteIds :
        (/\ quotes[q].status = "pending" /\ quotes[q].paymentId = 0
         /\ \A id \in PaymentsOfQuote(q) :
               payments[id].status = "cancelled" /\ payments[id].webhookData = "none")
        => \A p \in Procs : ~RefusedAsExisting(p, q)

\* C19: once a rejected notification has been applied to the payment of a
\* pending quote, a payment-creation request for the quote is not refused
\* because of the rejected payment.
C19_NewPaymentAfterRejection ==
    \A q \in QuoteIds :
        (/\ quotes[q].status = "pending"
         /\ \A id \in PaymentsOfQuote(q) :
               payments[id].status = "rejected" /\ payments[id].webhookData = "rejected")
        => \A p \in Procs : ~RefusedAsExisting(p, q)

\* C20: a step of cancelPayment that makes a payment cancelled starts from a
\* state in which that payment is pending.
C20_CancelPaymentOnlyFromPending ==
    [][\A p \in Procs :
          (/\ req[p].op = "cancelPayment" /\ StepBy(p)
           /\ payments'[req[p].pay].status = "cancelled"
           /\ payments[req[p].pay].status # "cancelled")
          => payments[req[p].pay].status = "pending"]_vars

\* C21: whenever no request is being handled, for a quote whose expiration has
\* not passed: the payment its paymentId names is stored, belongs to the quote
\* and is not cancelled, and every payment of the quote that is not cancelled
\* is the one its paymentId names.
C21_QuotePaymentLinkConsistent ==
    (\A p \in Procs : req[p].pc = "idle")
    => \A q \in QuoteIds :
          (quotes[q].status # "none" /\ ~quotes[q].due)
          => /\ quotes[q].paymentId # 0
                  => /\ payments[quotes[q].paymentId].status \notin {"none", "cancelled"}
                     /\ payments[quotes[q].paymentId].quote = q
             /\ \A id \in PaymentsOfQuote(q) :
                   payments[id].status # "cancelled" => quotes[q].paymentId = id

\* C22: every stored payment has paidAt set exactly when its status is approved.
C22_PaidAtIffApproved ==
    \A id \in PaymentIds :
        payments[id].status # "none"
        => (payments[id].paidAt # 0 <=> payments[id].status = "approved")

\* C23: a payment is stored with the total of its quote as amount, and no step
\* changes the amount of a stored payment.
C23_AmountIsQuoteTotal ==
    [][\A id \in PaymentIds :
          payments'[id].status # "none"
          => payments'[id].amount =
                IF payments[id].status = "none"
                THEN quotes[payments'[id].quote].total
                ELSE payments[id].amount]_vars

\* C23 witness: the payment of a quote with a discount and a tax has been
\* through a cancel request, which cleared the quote's paymentId, and then
\* through an approved notification; its amount is the quote's total.
C23_Witness ==
    \E id \in PaymentIds :
        /\ payments[id].status = "approved" /\ payments[id].webhookData = "approved"
        /\ quotes[payments[id].quote].status = "paid"
        /\ quotes[payments[id].quote].paymentId = 0
        /\ quotes[payments[id].quote].discount = 10
        /\ quotes[payments[id].quote].tax = 21
        /\ payments[id].amount = quotes[payments[id].quote].total
        /\ payments[id].amount > 0

\* The sum over the lines of price times quantity, in cents.
RECURSIVE ExactSubtotal(_)
ExactSubtotal(items) ==
    IF items = <<>> THEN 0
    ELSE Head(items).price * Head(items).quantity + ExactSubtotal(Tail(items))

\* n / d rounded half-up to an integer, for naturals n and d > 0.
HalfUp(n, d) == (2 * n + d) \div (2 * d)

\* C24: every stored quote has as subtotal the sum of snapshot price times
\* quantity over its lines and as total that sum times (1 - discount/100) times
\* (1 + tax/100), rounded half-up to two decimals.
C24_TotalsRoundedHalfUp ==
    \A q \in QuoteIds :
        quotes[q].status # "none"
        => /\ quotes[q].subtotal = ExactSubtotal(quotes[q].items)
           /\ quotes[q].total =
                 HalfUp(ExactSubtotal(quotes[q].items) * (100 - quotes[q].discount)
                            * (100 + quotes[q].tax), 10000)

\* C25: no step changes the lines (product, quantity, snapshot of name and
\* price), the discount, the tax, the subtotal or the total of a stored quote.
C25_SnapshotsAndTotalsFrozen ==
    [][\A q \in QuoteIds :
          quotes[q].status # "none"
          => /\ quotes'[q].items = quotes[q].items
             /\ quotes'[q].discount = quotes[q].discount
             /\ quotes'[q].tax = quotes[q].tax
             /\ quotes'[q].subtotal = quotes[q].subtotal
             /\ quotes'[q].total = quotes[q].total]_vars

\* C25 witness: a quote has been saved again, by cancelQuote, after the product
\* of one of its lines was given another name and another price and was
\* deactivated.
C25_Witness ==
    \E p \in Procs :
        /\ req[p].op = "cancelQuote" /\ req[p].pc = "resp" /\ req[p].res = "cancelled"
        /\ quotes[req[p].q].status = "cancelled"
        /\ \E i \in 1..Len(quotes[req[p].q].items) :
              LET item == quotes[req[p].q].items[i] IN
              /\ catalog[item.product].price # item.price
              /\ catalog[item.product].name # item.name
              /\ ~active[item.product]

\* C26: a createQuote request, created or refused, leaves the stock of every
\* product as it was; the only step that changes stock is the successful
\* decrement of an approved notification, by the quantities of the quote's lines.
C26_QuoteCreationLeavesStock ==
    [][/\ \A p \in Procs :
             (req[p].pc = "idle" /\ req'[p].op = "createQuote") => stock' = stock
       /\ stock' # stock
             => \E p \in Procs :
                   /\ req[p].op = "webhook" /\ req[p].gst = "approved"
                   /\ req[p].pc = "whDecrement" /\ req'[p].dec = "success"
                   /\ \A x \in Products :
                         stock'[x] = stock[x] - QtyOf(quotes[req[p].q].items, x)]_vars

\* C26 witness: a quote has just been created for all the units a product has
\* in stock, and they are still in stock.
C26_Witness ==
    \E p \in Procs :
        /\ req[p].op = "createQuote" /\ req[p].pc = "resp" /\ req[p].res = "created"
        /\ quotes[req[p].q].status = "pending"
        /\ \E i \in 1..Len(req[p].items) :
              /\ req[p].items[i].quantity = MaxQty
              /\ stock[req[p].items[i].product] = MaxQty

\* C27: every step of a cancelQuote request leaves stock, the products and
\* every payment as they were, and changes no quote except that the step that
\* answers "cancelled" sets the status of the quote named to cancelled, with
\* its lines, discount, tax, totals and payment reference as before.
C27_CancelChangesOnlyStatus ==
    [][\A p \in Procs :
          (req'[p].op = "cancelQuote" /\ req'[p] # req[p])
             => /\ stock' = stock /\ active' = active /\ catalog' = catalog
                /\ payments' = payments
                /\ \A q \in QuoteIds :
                      \/ quotes'[q] = quotes[q]
                      \/ /\ q = req'[p].q /\ req'[p].res = "cancelled"
                         /\ quotes'[q] = [quotes[q] EXCEPT !.status = "cancelled"]]_vars

\* C27 witness: a quote with a discount, a tax and a pending payment has just
\* been cancelled; it still names its payment, which is still pending.
C27_Witness ==
    \E p \in Procs :
        /\ req[p].op = "cancelQuote" /\ req[p].pc = "resp" /\ req[p].res = "cancelled"
        /\ LET qt == quotes[req[p].q] IN
              /\ qt.status = "cancelled" /\ qt.discount = 10 /\ qt.tax = 21
              /\ qt.total > 0 /\ qt.paymentId # 0
              /\ payments[qt.paymentId].status = "pending"
              /\ payments[qt.paymentId].quote = req[p].q

\* C28: a createQuote request in which two or more lines, all of active
\* products, ask for more than the stock of their product is answered with the
\* stock errors, one for each of those lines, and stores no quote.
C28_AllStockErrorsReturned ==
    [][\A p \in Procs :
          (req[p].pc = "idle" /\ req'[p].op = "createQuote")
             => LET items == req'[p].items
                    over == {i \in 1..Len(items) :
                                items[i].quantity > stock[items[i].product]}
                IN  ((\A i \in 1..Len(items) : active[items[i].product])
                        /\ Cardinality(over) >= 2)
                       => /\ req'[p].res = "stock_errors"
                          /\ quotes' = quotes
                          /\ \A i \in over : \E e \in req'[p].errs : e.line = i]_vars

\* C29: every step of an expireOldQuotes run leaves stock and payments alone and
\* changes no quote, except that it may set to expired a quote that is pending
\* and whose expiresAt has passed, leaving its other fields as they were; paid,
\* cancelled and expired quotes and pending quotes not yet due stay as they are.
C29_SweepChangesOnlyDuePending ==
    [][\A p \in Procs :
          (req'[p].op = "expireOldQuotes" /\ req'[p] # req[p])
             => /\ stock' = stock /\ payments' = payments
                /\ \A q \in DOMAIN quotes :
                      \/ quotes'[q] = quotes[q]
                      \/ /\ quotes[q].status = "pending" /\ quotes[q].due
                         /\ quotes'[q] = [quotes[q] EXCEPT !.status = "expired"]]_vars

\* C29 witness: a run has answered after expiring one quote, and the other
\* quote, pending and not yet due, is still pending.
C29_Witness ==
    \E p \in Procs :
        /\ req[p].op = "expireOldQuotes" /\ req[p].pc = "resp" /\ req[p].qty = 1
        /\ \E q1, q2 \in DOMAIN quotes :
              /\ q1 \in req[p].dueNow /\ quotes[q1].status = "expired"
              /\ quotes[q2].status = "pending" /\ ~quotes[q2].due

\* C30: whether runs of expireOldQuotes follow each other or overlap, each step
\* of a run adds to its expiredCount exactly the number of quotes that this
\* step has set to expired, an expired quote is left expired by every step (so
\* no later or overlapping run expires or counts it again), and when a run
\* answers no quote that was due when it started is still pending.
C30_SweepCountsEachQuoteOnce ==
    [][/\ \A q \in DOMAIN quotes :
             quotes[q].status = "expired" => quotes'[q] = quotes[q]
       /\ \A p \in Procs :
             (req'[p].op = "expireOldQuotes" /\ req'[p] # req[p])
                => /\ req'[p].qty - req[p].qty
                         = Cardinality({q \in DOMAIN quotes :
                                           /\ quotes[q].status # "expired"
                                           /\ quotes'[q].status = "expired"})
                   /\ req'[p].pc = "resp"
                         => \A q \in req'[p].dueNow : quotes'[q].status # "pending"]_vars

\* C30 witness: two runs overlap; one has answered with expiredCount 1, the
\* other, still running, has counted 1 as well, and both quotes are expired.
C30_Witness ==
    \E p, o \in Procs :
        /\ req[p].op = "expireOldQuotes" /\ req[p].pc = "resp" /\ req[p].qty = 1
        /\ req[o].op = "expireOldQuotes" /\ req[o].pc = "exScan" /\ req[o].qty = 1
        /\ req[p].dueNow = DOMAIN quotes /\ req[o].dueNow = DOMAIN quotes
        /\ \A q \in DOMAIN quotes : quotes[q].status = "expired"

\* C31: every step that changes the stock of a product is a call of the stock
\* service's decrementStock or incrementStock.
C31_StockChangedOnlyByLedger ==
    [][stock' # stock
          => \E p \in Procs :
                /\ req'[p] # req[p]
                /\ req'[p].op \in {"decrementStock", "incrementStock"}]_vars

\* The units of product x that can be sold now: its stock, none when the
\* product is not active.
AvailableStock(x) == IF active[x] THEN stock[x] ELSE 0

CreatePaymentRefusals ==
    {"not_found", "bad_request", "payment_exists", "hook_error", "duplicate_key",
     "stock_errors", "gateway_error"}

\* C33: a createPayment request that is refused has stored no payment, and as
\* long as a createPayment request has stored no payment its steps leave every
\* payment and every quote (status and payment reference included) as they were.
C33_FailedPaymentCreationWritesNothing ==
    [][\A p \in Procs :
          (req'[p].op = "createPayment" /\ req'[p] # req[p])
             => /\ req'[p].res \in CreatePaymentRefusals => req'[p].pay = 0
                /\ req'[p].pay = 0 => (payments' = payments /\ quotes' = quotes)]_vars

\* C33 witness: the gateway has failed for a createPayment of a pending quote;
\* the quote is still pending, names no payment, and no payment of it exists.
C33_Witness ==
    \E p \in Procs :
        /\ req[p].op = "createPayment" /\ req[p].pc = "resp"
        /\ req[p].res = "gateway_error"
        /\ quotes[req[p].q].status = "pending"
        /\ quotes[req[p].q].paymentId = 0
        /\ PaymentsOfQuote(req[p].q) = {}

\* C34: when the handling of a notification has answered, the gateway having
\* reported approved for a payment that was pending, the payment is approved
\* and its quote is paid.
C34_ApprovedNotificationCompletes ==
    \A p \in Procs :
        (/\ req[p].op = "webhook" /\ req[p].pc = "resp"
         /\ req[p].gst = "approved" /\ req[p].lp = "pending")
           => /\ payments[req[p].pay].status = "approved"
              /\ quotes[req[p].q].status = "paid"

\* C35: a createQuote request whose lines all name active products, the stock
\* of each product covering the quantities of all the lines that name it, is
\* answered "created" and stores a pending quote with those lines.
C35_ValidLinesCreateQuote ==
    [][\A p \in Procs :
          (req[p].pc = "idle" /\ req'[p].op = "createQuote")
             => LET items == req'[p].items IN
                ((\A i \in 1..Len(items) : active[items[i].product])
                    /\ \A x \in Products : QtyOf(items, x) <= stock[x])
                   => /\ req'[p].res = "created"
                      /\ quotes'[req'[p].q].status = "pending"
                      /\ Len(quotes'[req'[p].q].items) = Len(items)]_vars

\* C36: a successful decrementStock lists every item, in order, with
\* previousStock the stock of its product immediately before that item's
\* decrement and newStock = previousStock - quantity, also when one product
\* appears in several items.
C36_DecrementReportsEachItem ==
    [][\A p \in Procs :
          (req[p].pc = "idle" /\ req'[p].op = "decrementStock"
              /\ req'[p].res = "success")
             => LET items == req'[p].items
                    upd == req'[p].updatedProducts
                IN  /\ Len(upd) = Len(items)
                    /\ \A i \in 1..Len(items) :
                          /\ upd[i].productId = items[i].product
                          /\ upd[i].previousStock =
                                stock[items[i].product]
                                   - QtyOf(SubSeq(items, 1, i - 1),
                                           items[i].product)
                          /\ upd[i].newStock =
                                upd[i].previousStock - items[i].quantity]_vars

\* The units taken from product x by admin 'decrement' requests of r that met
\* a negative result and have not yet written their revert.
RECURSIVE PendingReverts(_, _, _)
PendingReverts(r, ps, x) ==
    IF ps = {} THEN 0
    ELSE LET p == CHOOSE o \in ps : TRUE IN
         (IF r[p].pc = "usRevert" /\ r[p].sop = "decrement" /\ r[p].prod = x
          THEN r[p].qty ELSE 0)
            + PendingReverts(r, ps \ {p}, x)

C38_UnhandledNotificationChangesNothing ==
    [][\A p \in Procs :
          (/\ req'[p] # req[p]
           /\ req'[p].op = "webhook"
           /\ \/ Topic(req'[p].note) # "payment"
              \/ req'[p].gst \notin {"approved", "rejected", "cancelled"})
             => /\ payments' = payments
                /\ quotes' = quotes
                /\ stock' = stock]_vars

\* A payment notification whose gateway status is in_process was answered for a
\* stored pending payment.
C38_Witness ==
    \E p \in Procs :
        /\ req[p].op = "webhook" /\ req[p].pc = "resp" /\ req[p].res = "ack"
        /\ req[p].note = "payment" /\ req[p].gst = "in_process"
        /\ req[p].lp = "pending"
        /\ payments[req[p].pay].status = "pending"
        /\ payments[req[p].pay].webhookData # "in_process"

\* The same notification with the signature added or taken away.
OtherSigning(note) == IF note = "payment" THEN "signed_payment" ELSE "payment"

\* C39: the request context that the endpoint builds for a payment notification
\* is, but for the signature, the one it builds for the same notification
\* signed correctly instead of unsigned (or unsigned instead of signed), so the
\* writes that follow are the same; and no step of the handling of a wrongly
\* signed notification changes a payment, a quote or the stock.
C39_SignatureCheckedOnlyWhenPresent ==
    [][\A p \in Procs :
          /\ (/\ req[p].pc = "idle" /\ req'[p].op = "webhook"
              /\ req'[p].note \in {"payment", "signed_payment"})
                => /\ [req'[p] EXCEPT !.note = OtherSigning(req'[p].note)]
                        = [WebhookFound(OtherSigning(req'[p].note),
                                        req'[p].pay, req'[p].fetched)
                              EXCEPT !.at = req'[p].at]
                   /\ payments' = payments /\ quotes' = quotes /\ stock' = stock
          /\ (/\ req'[p] # req[p] /\ req'[p].op = "webhook"
              /\ Signature(req'[p].note) = "wrong")
                => /\ req'[p].res = "invalid_signature"
                   /\ payments' = payments /\ quotes' = quotes /\ stock' = stock]_vars

\* A correctly signed notification of an approved payment was applied: the
\* payment it names is approved and stores the notification.
C39_Witness ==
    \E p \in Procs :
        /\ req[p].op = "webhook" /\ req[p].pc = "resp" /\ req[p].res = "ack"
        /\ req[p].note = "signed_payment" /\ req[p].gst = "approved"
        /\ req[p].lp = "pending"
        /\ payments[req[p].pay].status = "approved"

TypeOK ==
    /\ stock \in [Products -> Int]
    /\ active \in [Products -> BOOLEAN]
    /\ \A q \in QuoteIds : quotes[q].status \in {"none", "pending"} \cup TerminalQuote
    /\ \A id \in PaymentIds : payments[id].status \in {"none", "pending"} \cup TerminalPayment
    /\ nreq \in 0..MaxRequests

====
